---------------------------- MODULE Spec2Model ----------------------------
(***************************************************************************)
(* Model of the LawNet case-processing pipeline (pipeline.py) with its     *)
(* collaborators: the HTML and text metadata extractors (src/scraper.py,   *)
(* src/extractor.py) and the SQLite case store (src/database.py).          *)
(*                                                                         *)
(* Python str values are TLA+ strings, Python dicts are functions over a   *)
(* set of string keys, Python lists are sequences.                         *)
(***************************************************************************)
EXTENDS Integers, Sequences, FiniteSets, TLC

\* Python's None (no page text or URL of the model is this literal).
None == "<None>"

\* Python truthiness of a str-or-None value: `if v:`.
Truthy(v) == v # None /\ v # ""

Min(a, b) == IF a <= b THEN a ELSE b
Max(a, b) == IF a >= b THEN a ELSE b

-----------------------------------------------------------------------------
(* Python string operations *)

\* s[i-1:j]: the characters i..j that exist
Slice(s, i, j) ==
    IF Max(i, 1) > Min(j, Len(s)) THEN ""
    ELSE SubSeq(s, Max(i, 1), Min(j, Len(s)))

\* s[:n]
Take(s, n) == SubSeq(s, 1, Min(n, Len(s)))

\* s[-n:]  (n > 0)
LastChars(s, n) == SubSeq(s, Max(1, Len(s) - n + 1), Len(s))

\* sub in s
Contains(s, sub) ==
    \E i \in 1..(Len(s) - Len(sub) + 1) : SubSeq(s, i, i + Len(sub) - 1) = sub

\* one character of s.lower()
LowerChar(c) ==
    CASE c = "A" -> "a" []
         c = "B" -> "b" []
         c = "C" -> "c" []
         c = "D" -> "d" []
         c = "E" -> "e" []
         c = "F" -> "f" []
         c = "G" -> "g" []
         c = "H" -> "h" []
         c = "I" -> "i" []
         c = "J" -> "j" []
         c = "K" -> "k" []
         c = "L" -> "l" []
         c = "M" -> "m" []
         c = "N" -> "n" []
         c = "O" -> "o" []
         c = "P" -> "p" []
         c = "Q" -> "q" []
         c = "R" -> "r" []
         c = "S" -> "s" []
         c = "T" -> "t" []
         c = "U" -> "u" []
         c = "V" -> "v" []
         c = "W" -> "w" []
         c = "X" -> "x" []
         c = "Y" -> "y" []
         c = "Z" -> "z" []
         OTHER -> c

\* s.lower(), character by character
RECURSIVE Lower(_)
Lower(s) ==
    IF Len(s) = 0 THEN ""
    ELSE IF Len(s) = 1 THEN LowerChar(s)
    ELSE LET h == Len(s) \div 2
         IN  Lower(SubSeq(s, 1, h)) \o Lower(SubSeq(s, h + 1, Len(s)))

\* s.replace(a, b) for single characters a, b
RECURSIVE ReplaceChar(_, _, _)
ReplaceChar(s, a, b) ==
    IF Len(s) = 0 THEN ""
    ELSE IF Len(s) = 1 THEN (IF s = a THEN b ELSE s)
    ELSE LET h == Len(s) \div 2
         IN  ReplaceChar(SubSeq(s, 1, h), a, b)
                 \o ReplaceChar(SubSeq(s, h + 1, Len(s)), a, b)

IsSpace(c) == c \in {" ", "\n", "\t", "\r"}

\* s.strip()
RECURSIVE LStrip(_)
LStrip(s) ==
    IF Len(s) > 0 /\ IsSpace(SubSeq(s, 1, 1)) THEN LStrip(Tail(s)) ELSE s

RECURSIVE RStrip(_)
RStrip(s) ==
    IF Len(s) > 0 /\ IsSpace(SubSeq(s, Len(s), Len(s)))
    THEN RStrip(SubSeq(s, 1, Len(s) - 1)) ELSE s

Strip(s) == LStrip(RStrip(s))

\* s.find(sub, start): the first 1-based index >= start where sub occurs, 0 if none
Find(s, sub, start) ==
    LET hits == {i \in start..(Len(s) - Len(sub) + 1) :
                     SubSeq(s, i, i + Len(sub) - 1) = sub}
    IN  IF hits = {} THEN 0 ELSE CHOOSE i \in hits : \A j \in hits : i <= j

\* s.split(sep)[0] for a single-character separator
FirstSegment(s, sep) ==
    LET i == Find(s, sep, 1) IN IF i = 0 THEN s ELSE SubSeq(s, 1, i - 1)

\* "; ".join(xs)
RECURSIVE Join(_)
Join(xs) ==
    IF Len(xs) = 0 THEN ""
    ELSE IF Len(xs) = 1 THEN xs[1]
    ELSE xs[1] \o "; " \o Join(Tail(xs))

\* c repeated n times
RECURSIVE Rep(_, _)
Rep(c, n) ==
    IF n = 0 THEN ""
    ELSE IF n = 1 THEN c
    ELSE LET h == Rep(c, n \div 2)
         IN  IF n % 2 = 0 THEN h \o h ELSE h \o h \o c

\* {**a, **b}: the keys of both, b's value where both have the key
DictUnion(a, b) ==
    [k \in DOMAIN a \cup DOMAIN b |-> IF k \in DOMAIN b THEN b[k] ELSE a[k]]

\* d.get(k)
Get(d, k) == IF k \in DOMAIN d THEN d[k] ELSE None


-----------------------------------------------------------------------------
(* src/extractor.py: the text metadata extractor.                          *)
(* A judgment text is a record: s is the text itself; plaintiff_counsel and *)
(* defendant_counsel are what the counsel search of lines 22-31 yields on   *)
(* it (None or the joined names), catchwords is group 1 of the Catchwords   *)
(* search of line 35 (None when the pattern does not match).                *)

OutcomeWindow == 2000
AreaOfLawTextLimit == 100

\* outcome_lower taking the first 2000 characters instead of the last
outcome_lower_head(s) == Lower(Take(s, OutcomeWindow))

\* text[-2000:].lower()
outcome_lower(s) == Lower(LastChars(s, OutcomeWindow))

\* lines 46-52: the outcome keyword scan
text_outcome(s) ==
    IF Contains(outcome_lower(s), "dismissed") THEN "Dismissed"
    ELSE IF Contains(outcome_lower(s), "allowed")
              \/ Contains(outcome_lower(s), "granted") THEN "Allowed/Granted"
    ELSE "Other"

\* lines 35-41
text_area_of_law(text) ==
    IF text.catchwords # None
    THEN Take(FirstSegment(Strip(text.catchwords), "\n"), AreaOfLawTextLimit)
    ELSE "Unclassified"

extract_legal_metadata(text) ==
    [plaintiff_counsel |-> text.plaintiff_counsel,
     defendant_counsel |-> text.defendant_counsel,
     area_of_law       |-> text_area_of_law(text),
     outcome           |-> text_outcome(text.s)]

-----------------------------------------------------------------------------
(* src/scraper.py: the HTML metadata extractor and the judgment text        *)
(* extractor.  A page is the markup seen through the queries the code runs  *)
(* on it: each field is what one BeautifulSoup or regex search returns.     *)
(*   title_tag        text of the h1 / caseTitle / title element, or None   *)
(*   citation_match   first [YYYY] LETTERS N of the flattened text, or None *)
(*   date_label, coram_label, counsel_block, legal_topics_header,           *)
(*   catchwords       whether the landmark text node exists                 *)
(*   date_next, coram_next, catchwords_next                                 *)
(*                    text of the element find_next() gives, None when no   *)
(*                    element follows the landmark                          *)
(*   date_parent      text of the label's parent                            *)
(*   coram_match      group 1 of the Coram regex (stripped), or None        *)
(*   counsel_has_next whether an element follows the counsel landmark       *)
(*   counsel_next, counsel_parent                                           *)
(*                    the counsel text split on ; and . : a sequence of     *)
(*                    fragments [clean, plaintiff, defendant], clean being  *)
(*                    the fragment with the role suffix removed             *)
(*   has_container    whether an lr_sec_content element follows the header  *)
(*   cw_spans         texts of the lr_cw elements of the container          *)
(*   container_text   flattened text of the container                       *)
(*   next_elems       texts of the elements after the Legal Topics header   *)
(*   headnote         text of the headnote element, or None                 *)
(*   trafilatura      the text trafilatura extracts (s = "" when nothing)   *)
(*   soup_text        the text of all text nodes                            *)

TopicLimit == 10
ContainerTextLimit == 200
SiblingWalk == 5
CatchwordsLimit == 100

\* lines 55-56
html_case_name(page) == page.title_tag

\* " v " in case_name, and the two sides of split(" v ", 1)
html_plaintiff_name(page) ==
    LET n == html_case_name(page) IN
    IF Truthy(n) /\ Contains(n, " v ")
    THEN Strip(SubSeq(n, 1, Find(n, " v ", 1) - 1)) ELSE None

html_defendant_name(page) ==
    LET n == html_case_name(page) IN
    IF Truthy(n) /\ Contains(n, " v ")
    THEN Strip(SubSeq(n, Find(n, " v ", 1) + 3, Len(n))) ELSE None

\* lines 68-70
html_citation(page) == page.citation_match

\* lines 73-81
html_decision_date(page) ==
    LET d == IF page.date_label
             THEN (IF page.date_next # None THEN page.date_next
                   ELSE page.date_parent)
             ELSE None
    IN  IF Truthy(d) THEN d ELSE None

\* line 89 dereferences find_next() without testing it
html_judge_name_raises(page) ==
    page.coram_match = None /\ page.coram_label /\ page.coram_next = None

\* lines 84-89
html_judge_name(page) ==
    IF page.coram_match # None THEN page.coram_match
    ELSE IF page.coram_label THEN page.coram_next ELSE None

\* lines 172-191: the clean names of the fragments that name the role
RECURSIVE found_names(_, _)
found_names(parts, role) ==
    IF Len(parts) = 0 THEN <<>>
    ELSE (IF parts[1][role] THEN <<parts[1].clean>> ELSE <<>>)
             \o found_names(Tail(parts), role)

extract_party_counsel_html(parts, role) ==
    IF Len(found_names(parts, role)) > 0
    THEN Join(found_names(parts, role)) ELSE None

\* lines 92-102
html_counsel(page, role) ==
    IF page.counsel_block
    THEN extract_party_counsel_html(
             IF page.counsel_has_next THEN page.counsel_next
             ELSE page.counsel_parent, role)
    ELSE None

\* lines 126-127: duplicates dropped, first-seen order kept
RECURSIVE Dedupe(_, _)
Dedupe(xs, seen) ==
    IF Len(xs) = 0 THEN <<>>
    ELSE IF xs[1] \in seen THEN Dedupe(Tail(xs), seen)
    ELSE <<xs[1]>> \o Dedupe(Tail(xs), seen \cup {xs[1]})

\* lines 134-141: the walk over the elements that follow the header
RECURSIVE walk_topics(_, _)
walk_topics(elems, steps) ==
    IF steps = 0 \/ Len(elems) = 0 THEN <<>>
    ELSE IF Contains(elems[1], "Judgments") \/ Contains(elems[1], "Case Details")
    THEN <<>>
    ELSE (IF elems[1] # "" /\ Len(elems[1]) > 2 THEN <<elems[1]>> ELSE <<>>)
             \o walk_topics(Tail(elems), steps - 1)

\* lines 110-152
html_area_of_law(page) ==
    IF page.legal_topics_header
    THEN IF page.has_container
         THEN IF Len(page.cw_spans) > 0
              THEN Join(SubSeq(Dedupe(page.cw_spans, {}), 1,
                          Min(TopicLimit, Len(Dedupe(page.cw_spans, {})))))
              ELSE Take(page.container_text, ContainerTextLimit)
         ELSE IF Len(walk_topics(page.next_elems, SiblingWalk)) > 0
              THEN Join(walk_topics(page.next_elems, SiblingWalk))
              ELSE "Unclassified"
    ELSE IF page.catchwords
         THEN Take(Strip(FirstSegment(
                  IF page.catchwords_next # None THEN page.catchwords_next
                  ELSE "", "-")), CatchwordsLimit)
         ELSE "Unclassified"

\* lines 158-168
html_outcome(page) ==
    IF page.headnote # None
    THEN IF Contains(Lower(page.headnote), "dismissed") THEN "Dismissed"
         ELSE IF Contains(Lower(page.headnote), "allowed") THEN "Allowed"
         ELSE None
    ELSE None

\* extract_case_metadata raises (AttributeError) instead of returning
extract_case_metadata_raises(page) == html_judge_name_raises(page)

\* the mapping extract_case_metadata returns when it returns
extract_case_metadata(page) ==
    [case_name         |-> html_case_name(page),
     plaintiff_name    |-> html_plaintiff_name(page),
     defendant_name    |-> html_defendant_name(page),
     citation          |-> html_citation(page),
     decision_date     |-> html_decision_date(page),
     judge_name        |-> html_judge_name(page),
     plaintiff_counsel |-> html_counsel(page, "plaintiff"),
     defendant_counsel |-> html_counsel(page, "defendant"),
     area_of_law       |-> html_area_of_law(page),
     outcome           |-> html_outcome(page)]

\* lines 193-203
extract_judgment_text(page) ==
    IF page.trafilatura.s = "" THEN page.soup_text ELSE page.trafilatura

-----------------------------------------------------------------------------
(* pipeline.py and src/database.py *)

\* pipeline.py lines 18-30.  re.search(r'citation/(\[.*?\]\+.*?)(\?|$)', url)
\* on a URL without line breaks: the leftmost "citation/[" that a "]+" follows;
\* group 1 runs from the "[" to just before the first "?" after that "]+",
\* or to the end of the URL.
citation_starts(url) ==
    {i \in 1..Len(url) :
        /\ Slice(url, i, i + 9) = "citation/["
        /\ Find(url, "]+", i + 10) # 0}

\* extract_citation_from_url with group 1 running to the end of the URL, the
\* query string kept
extract_citation_keeps_query(url) ==
    IF citation_starts(url) # {}
    THEN LET i == CHOOSE a \in citation_starts(url) :
                      \A b \in citation_starts(url) : a <= b
         IN  Strip(ReplaceChar(SubSeq(url, i + 9, Len(url)), "+", " "))
    ELSE url

extract_citation_from_url(url) ==
    IF citation_starts(url) # {}
    THEN LET i == CHOOSE a \in citation_starts(url) :
                      \A b \in citation_starts(url) : a <= b
             j == Find(url, "]+", i + 10)
             q == Find(url, "?", j + 2)
             e == IF q = 0 THEN Len(url) ELSE q - 1
         IN  Strip(ReplaceChar(SubSeq(url, i + 9, e), "+", " "))
    ELSE url

\* the court_cases table: its rows in insertion order
VARIABLE store
\* CURRENT_TIMESTAMP, which moves on from one run of the CLI to the next
VARIABLE clock
\* main(): "idle" before a run of the CLI, "gather" while it awaits
\* asyncio.gather, "done" when it returned, "raised" when it raised
VARIABLE mainpc
\* how many process_case coroutines the runs of the CLI have created
VARIABLE runs
\* args.urls and args.force of the current run
VARIABLE urls
VARIABLE force
\* per task of the current run (one process_case coroutine per URL):
\* where it is, the loop variable attempt, the number of fetch_case_html
\* calls, html_content, case_data, the exception it ended with, what it
\* logged, and the number of rows it wrote
VARIABLE pc
VARIABLE attempt
VARIABLE fetches
VARIABLE html_content
VARIABLE case_data
VARIABLE exc
VARIABLE logs
VARIABLE writes
\* history: the URLs a run without --force has persisted, and whether a
\* task started after such a run of its URL
VARIABLE persistedUrls
VARIABLE after
\* the argument and the result of an extractor applied on its own
VARIABLE input
VARIABLE output

vars == <<store, clock, mainpc, runs, urls, force, pc, attempt, fetches,
          html_content, case_data, exc, logs, writes, persistedUrls, after,
          input, output>>

pipelineVars == <<store, clock, mainpc, runs, urls, force, pc, attempt,
                  fetches, html_content, case_data, exc, logs, writes,
                  persistedUrls, after>>

\* no extractor result yet
NoOutput == <<>>

taskVars == <<pc, attempt, fetches, html_content, case_data, exc, logs,
              writes, after>>

\* pipeline.py line 47
retries == 3

Columns == {"citation", "case_name", "plaintiff_name", "defendant_name",
            "judge_name", "decision_date", "area_of_law", "outcome",
            "plaintiff_counsel", "defendant_counsel", "raw_judgment_text"}

\* database.py lines 151-160
case_exists(citation) == \E i \in DOMAIN store : store[i].citation = citation

\* row_values reading the judgment text under a key case_data does not have
row_values_wrong_key(data) ==
    [c \in Columns |->
        IF c = "raw_judgment_text" THEN Get(data, "raw_text") ELSE Get(data, c)]

\* database.py lines 127-139: the bound values, data.get(column) for each
row_values(data) == [c \in Columns |-> Get(data, c)]

\* database.py lines 107-125 on the table of lines 22-35: citation is a TEXT
\* PRIMARY KEY without NOT NULL, so SQLite stores NULL keys and no NULL
\* conflicts with another; a conflicting row is replaced where it is and its
\* created_at set to CURRENT_TIMESTAMP.
upsert(table, values, now) ==
    LET row == [c \in Columns \cup {"created_at"} |->
                   IF c = "created_at" THEN now ELSE values[c]]
    IN  IF values.citation # None
           /\ \E i \in DOMAIN table : table[i].citation = values.citation
        THEN [i \in DOMAIN table |->
                 IF table[i].citation = values.citation THEN row ELSE table[i]]
        ELSE Append(table, row)

\* database.py lines 143 and 146: what save_case logs
save_case_logs(ok) == IF ok THEN {"saved"} ELSE {"error saving"}

\* save_case logging the sqlite3.Error without raising it again
save_case_swallows(ok) == FALSE

\* database.py lines 145-147: a sqlite3.Error is raised again
save_case_raises(ok) == ~ok

\* pipeline.py lines 76-81
merge_metadata(llm_metadata, html_metadata) ==
    LET final_metadata == DictUnion(llm_metadata, html_metadata)
    IN  [k \in DOMAIN final_metadata |->
            IF k \in DOMAIN html_metadata /\ Truthy(html_metadata[k])
            THEN html_metadata[k] ELSE final_metadata[k]]

\* pipeline.py lines 83-87
assemble_case_data(citation, raw_text, final_metadata) ==
    DictUnion([citation |-> citation, raw_judgment_text |-> raw_text.s],
              final_metadata)

\* pipeline.py lines 61-87 for a page the HTML extractor returns on
build_case_data(url, page) ==
    assemble_case_data(
        extract_citation_from_url(url),
        extract_judgment_text(page),
        merge_metadata(extract_legal_metadata(extract_judgment_text(page)),
                       extract_case_metadata(page)))

-----------------------------------------------------------------------------
(* The inputs of the pipeline model: URLs and the pages a fetch can return *)

\* the number of process_case runs, over all runs of the CLI
MaxRuns == 2

\* a URL with the citation segment and a query string, and one without the
\* citation segment
Urls == {"l/citation/[2026]+SGHC+21?ref=x", "l/case/42"}

TextAllowed ==
    [s |-> "Catchwords: Contract\nCase\nThe claim is GRANTED.",
     plaintiff_counsel |-> "Mr X (Firm A)", defendant_counsel |-> None,
     catchwords |-> "Contract"]

TextDismissed ==
    [s |-> "Before the court. Appeal dismissed",
     plaintiff_counsel |-> None, defendant_counsel |-> None,
     catchwords |-> None]

NoText ==
    [s |-> "", plaintiff_counsel |-> None, defendant_counsel |-> None,
     catchwords |-> None]

\* a page on which every search of the extractor comes back empty
BlankPage ==
    [title_tag |-> None, citation_match |-> None,
     date_label |-> FALSE, date_next |-> None, date_parent |-> "",
     coram_match |-> None, coram_label |-> FALSE, coram_next |-> None,
     counsel_block |-> FALSE, counsel_has_next |-> FALSE,
     counsel_next |-> <<>>, counsel_parent |-> <<>>,
     legal_topics_header |-> FALSE, has_container |-> FALSE,
     cw_spans |-> <<>>, container_text |-> "", next_elems |-> <<>>,
     catchwords |-> FALSE, catchwords_next |-> None,
     headnote |-> None, trafilatura |-> NoText, soup_text |-> NoText]

\* a judgment page with every landmark, citing the case of the first URL
PageFull ==
    [BlankPage EXCEPT
        !.title_tag = "A v B", !.citation_match = "[2026] SGHC 21",
        !.date_label = TRUE, !.date_next = "1 Feb 2026",
        !.coram_match = "Tan J", !.coram_label = TRUE, !.coram_next = "Tan J",
        !.counsel_block = TRUE, !.counsel_has_next = TRUE,
        !.counsel_next =
            <<[clean |-> "Mr X", plaintiff |-> TRUE, defendant |-> FALSE],
              [clean |-> "Ms Y", plaintiff |-> FALSE, defendant |-> TRUE]>>,
        !.legal_topics_header = TRUE, !.has_container = TRUE,
        !.cw_spans = <<"Tort", "Negligence", "Tort">>,
        !.headnote = "Appeal dismissed with costs",
        !.trafilatura = TextAllowed, !.soup_text = TextAllowed]

\* a page without citation, headnote or title; its Catchwords label is the
\* last node of the document; trafilatura extracts nothing from it
PageBare ==
    [BlankPage EXCEPT
        !.catchwords = TRUE, !.soup_text = TextAllowed]

\* another rendering of the judgment of PageFull: no v in the title, no
\* landmarks
PageShort ==
    [BlankPage EXCEPT
        !.title_tag = "Re A", !.citation_match = "[2026] SGHC 21",
        !.headnote = "The appeal is allowed",
        !.trafilatura = TextDismissed, !.soup_text = TextDismissed]

\* a page whose last text node holds "Before" and that has no Coram section
PageBefore ==
    [BlankPage EXCEPT
        !.title_tag = "E v F", !.citation_match = "[2026] SGHC 21",
        !.coram_label = TRUE,
        !.trafilatura = TextDismissed, !.soup_text = TextDismissed]

Pages == {PageFull, PageBare, PageShort, PageBefore}

\* html_content = None (pipeline.py line 46): no page fetched yet
NoContent == BlankPage

\* extract_citation_from_url and build_case_data on the inputs above,
\* evaluated once
citation_of == [u \in Urls |-> extract_citation_from_url(u)]

case_data_of ==
    [u \in Urls |->
        [p \in Pages |-> IF extract_case_metadata_raises(p) THEN <<>>
                         ELSE build_case_data(u, p)]]

-----------------------------------------------------------------------------
(* The pipeline as a state machine.  A task runs without interruption from  *)
(* one await to the next: the awaits of process_case are the fetch (line    *)
(* 50) and the backoff sleep (line 54).                                     *)

Tasks == DOMAIN pc

PipelineInit ==
    /\ store = <<>>
    /\ clock = 0
    /\ mainpc = "idle"
    /\ runs = 0
    /\ urls = <<>>
    /\ force = FALSE
    /\ pc = <<>>
    /\ attempt = <<>>
    /\ fetches = <<>>
    /\ html_content = <<>>
    /\ case_data = <<>>
    /\ exc = <<>>
    /\ logs = <<>>
    /\ writes = <<>>
    /\ persistedUrls = {}
    /\ after = <<>>

Init ==
    /\ PipelineInit
    /\ input = NoOutput
    /\ output = NoOutput

\* pipeline.py lines 92-109: a run of the CLI parses its arguments, creates
\* the table if it does not exist and hands one coroutine per URL to gather
MainStart(us, f) ==
    /\ mainpc \in {"idle", "done", "raised"}
    /\ runs + Len(us) <= MaxRuns
    /\ runs' = runs + Len(us)
    /\ clock' = clock + 1
    /\ mainpc' = "gather"
    /\ urls' = us
    /\ force' = f
    /\ pc' = [t \in DOMAIN us |-> "pending"]
    /\ attempt' = [t \in DOMAIN us |-> 0]
    /\ fetches' = [t \in DOMAIN us |-> 0]
    /\ html_content' = [t \in DOMAIN us |-> NoContent]
    /\ case_data' = [t \in DOMAIN us |-> <<>>]
    /\ exc' = [t \in DOMAIN us |-> ""]
    /\ logs' = [t \in DOMAIN us |-> {}]
    /\ writes' = [t \in DOMAIN us |-> 0]
    /\ after' = [t \in DOMAIN us |-> FALSE]
    /\ UNCHANGED <<store, persistedUrls,
                   input, output>>

\* the event loop runs the first step of every task, in the order gather
\* was given them, before it delivers any I/O result
AllStarted == \A t \in Tasks : pc[t] # "pending"

\* pipeline.py lines 36-50: the idempotency gate, then the first fetch call
Start(t) ==
    /\ mainpc = "gather"
    /\ pc[t] = "pending"
    /\ \A u \in Tasks : u < t => pc[u] # "pending"
    /\ after' = [after EXCEPT ![t] = urls[t] \in persistedUrls]
    /\ IF ~force /\ case_exists(citation_of[urls[t]])
       THEN /\ pc' = [pc EXCEPT ![t] = "skipped"]
            /\ logs' = [logs EXCEPT ![t] = @ \cup {"skipping"}]
            /\ UNCHANGED fetches
       ELSE /\ pc' = [pc EXCEPT ![t] = "fetching"]
            /\ logs' = [logs EXCEPT ![t] = @ \cup {"processing"}]
            /\ fetches' = [fetches EXCEPT ![t] = @ + 1]
    /\ UNCHANGED <<store, clock, mainpc, runs, urls, force, attempt,
                   html_content, case_data, exc, writes, persistedUrls,
                   input, output>>

\* pipeline.py lines 50-51 and 56-90: fetch_case_html returns the markup;
\* extraction, merge and save follow without an await.  ok tells whether
\* SQLite executes the statement of save_case or fails with a sqlite3.Error.
FetchReturns(t, page, ok) ==
    /\ mainpc = "gather"
    /\ AllStarted
    /\ pc[t] = "fetching"
    /\ html_content' = [html_content EXCEPT ![t] = page]
    /\ IF extract_case_metadata_raises(page)
       THEN /\ pc' = [pc EXCEPT ![t] = "raised"]
            /\ exc' = [exc EXCEPT ![t] = "AttributeError"]
            /\ UNCHANGED <<store, case_data, logs, writes, persistedUrls>>
       ELSE /\ case_data' = [case_data EXCEPT
                                ![t] = case_data_of[urls[t]][page]]
            /\ store' = IF ok
                        THEN upsert(store,
                                 row_values(case_data_of[urls[t]][page]),
                                 clock)
                        ELSE store
            /\ writes' = [writes EXCEPT ![t] = IF ok THEN @ + 1 ELSE @]
            /\ IF save_case_raises(ok)
               THEN /\ pc' = [pc EXCEPT ![t] = "raised"]
                    /\ exc' = [exc EXCEPT ![t] = "sqlite3.Error"]
                    /\ logs' = [logs EXCEPT ![t] = @ \cup save_case_logs(ok)]
                    /\ UNCHANGED persistedUrls
               ELSE /\ pc' = [pc EXCEPT ![t] = "persisted"]
                    /\ logs' = [logs EXCEPT
                                   ![t] = @ \cup save_case_logs(ok)
                                            \cup {"success"}]
                    /\ persistedUrls' =
                           IF force THEN persistedUrls
                           ELSE persistedUrls \cup {urls[t]}
                    /\ UNCHANGED exc
    /\ UNCHANGED <<clock, mainpc, runs, urls, force, attempt, fetches, after,
                   input, output>>

\* pipeline.py lines 52-54: fetch_case_html raises; the task logs a warning
\* and sleeps
FetchRaises(t) ==
    /\ mainpc = "gather"
    /\ AllStarted
    /\ pc[t] = "fetching"
    /\ pc' = [pc EXCEPT ![t] = "sleeping"]
    /\ logs' = [logs EXCEPT ![t] = @ \cup {"warning"}]
    /\ UNCHANGED <<store, clock, mainpc, runs, urls, force, attempt, fetches,
                   html_content, case_data, exc, writes, persistedUrls, after,
                   input, output>>

\* pipeline.py lines 48-58: the sleep ends; the loop fetches again or, after
\* the last attempt, the task logs the failure and returns
Wake(t) ==
    /\ mainpc = "gather"
    /\ AllStarted
    /\ pc[t] = "sleeping"
    /\ attempt' = [attempt EXCEPT ![t] = @ + 1]
    /\ IF attempt[t] + 1 < retries
       THEN /\ pc' = [pc EXCEPT ![t] = "fetching"]
            /\ fetches' = [fetches EXCEPT ![t] = @ + 1]
            /\ UNCHANGED logs
       ELSE /\ pc' = [pc EXCEPT ![t] = "failed"]
            /\ logs' = [logs EXCEPT ![t] = @ \cup {"failed to fetch"}]
            /\ UNCHANGED fetches
    /\ UNCHANGED <<store, clock, mainpc, runs, urls, force, html_content,
                   case_data, exc, writes, persistedUrls, after,
                   input, output>>

\* pipeline.py line 109: every task returned, gather and main return
MainReturns ==
    /\ mainpc = "gather"
    /\ \A t \in Tasks : pc[t] \in {"skipped", "persisted", "failed"}
    /\ mainpc' = "done"
    /\ UNCHANGED <<store, clock, runs, urls, force, taskVars, persistedUrls,
                   input, output>>

\* pipeline.py lines 109 and 112: gather (return_exceptions not set) raises
\* the first exception of a task in main; asyncio.run then cancels the
\* tasks that are still awaiting
MainRaises ==
    /\ mainpc = "gather"
    /\ \E t \in Tasks : pc[t] = "raised"
    /\ mainpc' = "raised"
    /\ pc' = [t \in Tasks |->
                 IF pc[t] \in {"fetching", "sleeping"} THEN "cancelled"
                 ELSE pc[t]]
    /\ UNCHANGED <<store, clock, runs, urls, force, attempt, fetches,
                   html_content, case_data, exc, logs, writes, persistedUrls,
                   after,
                   input, output>>

\* the URL lists a run of the CLI can be given (nargs='+': at least one)
UrlLists == UNION {[1..n -> Urls] : n \in 1..MaxRuns}

Next ==
    \/ \E us \in UrlLists, f \in BOOLEAN : MainStart(us, f)
    \/ \E t \in Tasks : Start(t)
    \/ \E t \in Tasks, page \in Pages, ok \in BOOLEAN : FetchReturns(t, page, ok)
    \/ \E t \in Tasks : FetchRaises(t)
    \/ \E t \in Tasks : Wake(t)
    \/ MainReturns
    \/ MainRaises

Spec == Init /\ [][Next]_vars

-----------------------------------------------------------------------------
(* Claims about the pipeline, checked under Spec *)

\* the tasks that got as far as assembling case_data
Assembled == {t \in Tasks : case_data[t] # <<>>}

html_of(t) == extract_case_metadata(html_content[t])
llm_of(t) == extract_legal_metadata(extract_judgment_text(html_content[t]))

\* C1: merge policy.  For every key of the two mappings merged in
\* process_case, the merged value is the html-derived value when that is
\* non-null and non-empty, and the text-derived value otherwise.
C1_MergePolicy ==
    \A t \in Assembled :
        \A k \in (DOMAIN html_of(t) \cup DOMAIN llm_of(t)) \ {"citation"} :
            case_data[t][k] = IF Truthy(Get(html_of(t), k))
                              THEN html_of(t)[k]
                              ELSE Get(llm_of(t), k)

\* C2: idempotency.  A run of process_case without --force on a URL that an
\* earlier run without --force has fetched and persisted is skipped at the
\* gate: it fetches nothing and writes nothing, so the URL keeps its one
\* record.
C2_Idempotent ==
    \A t \in Tasks :
        (after[t] /\ ~force /\ pc[t] # "pending") =>
            /\ pc[t] = "skipped"
            /\ fetches[t] = 0
            /\ writes[t] = 0

\* C3: fetch retry.  A task whose fetch raised twice and returned markup the
\* third time has persisted a record (unless SQLite refused the write); a
\* task whose fetch raised three times wrote nothing, logged the failure and
\* returned without an exception.
C3_FetchRetry ==
    \A t \in Tasks :
        /\ (attempt[t] = 2 /\ html_content[t] # NoContent
                /\ exc[t] # "sqlite3.Error") =>
               (pc[t] = "persisted" /\ writes[t] = 1)
        /\ attempt[t] = retries =>
               /\ pc[t] = "failed"
               /\ writes[t] = 0
               /\ "failed to fetch" \in logs[t]
               /\ exc[t] = ""

\* C4: the record passed to the store has a non-null, non-empty citation:
\* the html-derived one when present and non-empty, else the URL-derived one.
C4_CitationNeverEmpty ==
    \A t \in Assembled :
        /\ Truthy(case_data[t].citation)
        /\ case_data[t].citation =
               IF Truthy(html_of(t).citation) THEN html_of(t).citation
               ELSE extract_citation_from_url(urls[t])

\* C5: the table holds at most one row per citation: saving a citation that
\* is stored replaces its row and never appends a second one.
C5_OneRowPerCitation ==
    \A i, j \in DOMAIN store :
        store[i].citation = store[j].citation => i = j

\* C6: no partial persistence.  Every change of the table is the one write
\* of a task that goes from fetching to persisted: one row, holding every
\* column of that task's assembled record (citation, raw_judgment_text and
\* the merged metadata), the other rows untouched; a step that ends a task
\* as skipped, failed or raised changes nothing in the table.
C6_NoPartialPersistence ==
    [][ /\ store' # store =>
            \E t \in Tasks :
                /\ pc[t] = "fetching" /\ pc'[t] = "persisted"
                /\ writes[t] = 0 /\ writes'[t] = 1
                /\ {"citation", "raw_judgment_text"}
                       \cup DOMAIN extract_case_metadata(html_content'[t])
                       \cup DOMAIN extract_legal_metadata(
                                extract_judgment_text(html_content'[t]))
                           \subseteq DOMAIN case_data'[t]
                /\ DOMAIN case_data'[t] \subseteq Columns
                /\ \E i \in DOMAIN store' :
                      /\ \A c \in Columns : store'[i][c] = case_data'[t][c]
                      /\ store'[i].created_at = clock
                      /\ Len(store') \in {Len(store), Len(store) + 1}
                      /\ \A j \in DOMAIN store : j # i => store'[j] = store[j]
                      /\ i > Len(store) => Len(store') = Len(store) + 1
                      /\ i <= Len(store) => Len(store') = Len(store)
        /\ \A t \in Tasks :
               (pc[t] \in {"pending", "fetching", "sleeping"}
                    /\ DOMAIN pc' = DOMAIN pc
                    /\ pc'[t] \in {"skipped", "failed", "raised", "cancelled"})
                   => (store' = store /\ writes'[t] = 0)
      ]_vars

\* one task has written its record and another has ended failed without a
\* write
C6_Witness ==
    /\ store # <<>>
    /\ \E t \in Tasks : pc[t] = "persisted" /\ writes[t] = 1
    /\ \E t \in Tasks : pc[t] = "failed" /\ writes[t] = 0

\* C7: failure isolation.  A started task is never ended from outside: it
\* reaches persisted, skipped, failed or its own exception however its
\* siblings end.
C7_NoTaskCancelled ==
    \A t \in Tasks : pc[t] # "cancelled"

\* C8: a store failure is not swallowed.  A task whose save_case hit a
\* sqlite3.Error ends with that exception, never logs success, and main does
\* not return normally.
C8_StoreFailurePropagates ==
    \A t \in Tasks :
        "error saving" \in logs[t] =>
            /\ pc[t] = "raised"
            /\ exc[t] = "sqlite3.Error"
            /\ "success" \notin logs[t]
            /\ writes[t] = 0
            /\ mainpc \in {"gather", "raised"}

\* main has raised the sqlite3.Error of one of its tasks
C8_Witness ==
    /\ mainpc = "raised"
    /\ \E t \in Tasks : "error saving" \in logs[t] /\ pc[t] = "raised"

\* C10: the HTML metadata extractor is total: it returns a mapping for every
\* page a fetch returns and never raises.
C10_HtmlExtractorTotal ==
    \A t \in Tasks :
        html_content[t] # NoContent =>
            /\ ~extract_case_metadata_raises(html_content[t])
            /\ exc[t] # "AttributeError"

\* C13: termination.  When a run of the CLI is over, every one of its tasks
\* has reached a terminal outcome, persisted, skipped or failed (a failure
\* being the logged fetch failure or an exception of the task itself), after
\* at most 3 fetch attempts.
C13_TasksRunToCompletion ==
    /\ \A t \in Tasks : fetches[t] <= 3
    /\ mainpc \in {"done", "raised"} =>
           \A t \in Tasks :
               pc[t] \in {"persisted", "skipped", "failed", "raised"}

\* C14: backoff placement.  A task waits only between two fetch attempts:
\* a waiting task has made fewer than 3 attempts, so that another attempt
\* follows the wait, and no attempt of it has returned markup.
C14_BackoffOnlyBetweenAttempts ==
    \A t \in Tasks :
        pc[t] = "sleeping" =>
            /\ fetches[t] < retries
            /\ html_content[t] = NoContent

\* C15: force reprocess.  With the force flag a task is never skipped, and
\* when a record is stored for its URL-derived citation and its fetch
\* succeeds, it ends with that record overwritten by its merged record;
\* without the flag a task whose URL-derived citation has a record makes no
\* fetch.
C15_ForceReprocess ==
    [][mainpc = "gather" =>
        \A t \in Tasks :
            /\ force => pc'[t] # "skipped"
            /\ /\ force
               /\ case_exists(citation_of[urls[t]])
               /\ pc[t] = "fetching"
               /\ pc'[t] = "persisted"
               => /\ Len(store') = Len(store)
                  /\ \E i \in DOMAIN store' :
                         /\ store'[i].citation = citation_of[urls[t]]
                         /\ \A c \in Columns :
                                store'[i][c] = Get(case_data'[t], c)
            /\ /\ ~force
               /\ case_exists(citation_of[urls[t]])
               /\ pc[t] = "pending"
               => /\ pc'[t] \in {"pending", "skipped"}
                  /\ fetches'[t] = 0
    ]_vars

\* C17: same-citation race.  In a first run of the CLI without force, when
\* two tasks whose URLs give the same citation both write, the table holds,
\* once the second has written, exactly one record for that citation: the
\* record of the task that wrote last.
C17_SameCitationRace ==
    [][\A t \in Tasks, u \in Tasks :
        /\ t # u
        /\ mainpc = "gather" /\ clock = 1 /\ ~force
        /\ citation_of[urls[t]] = citation_of[urls[u]]
        /\ pc[u] = "persisted"
        /\ pc[t] = "fetching" /\ pc'[t] = "persisted"
        => LET rows == {i \in DOMAIN store' :
                           store'[i].citation = citation_of[urls[t]]}
           IN  /\ Cardinality(rows) = 1
               /\ \A i \in rows : \A c \in Columns :
                      store'[i][c] = Get(case_data'[t], c)
    ]_vars

-----------------------------------------------------------------------------
(* The text metadata extractor on its own: SpecText applies                 *)
(* extract_legal_metadata to judgment texts of up to a little more than     *)
(* 2000 characters, with outcome keywords inside, outside and across the    *)
(* edge of the last 2000 characters.                                        *)

\* characters put before the first keyword
MaxPrefix == 1

FirstWords == {"", "dismissed", "DISMISSED", "Allowed", "granted", "ismissed"}
LastWords == {"", "allowed", "Granted.", "dismissed"}

\* the distance between the two keywords: none, or such that the first
\* keyword lies inside, across or before the edge of the window
Gaps == {0, OutcomeWindow - 17, OutcomeWindow - 10, OutcomeWindow - 9,
         OutcomeWindow - 8, OutcomeWindow - 7, OutcomeWindow}

TextInputs ==
    {[s |-> Rep("x", n) \o w1 \o Rep(" ", g) \o w2,
      plaintiff_counsel |-> None, defendant_counsel |-> None,
      catchwords |-> " Tort - Negligence\nDamages"] :
        n \in 0..MaxPrefix, w1 \in FirstWords, g \in Gaps, w2 \in LastWords}

TextInit ==
    /\ PipelineInit
    /\ input \in TextInputs
    /\ output = NoOutput

ExtractLegalMetadata ==
    /\ output = NoOutput
    /\ output' = extract_legal_metadata(input)
    /\ UNCHANGED <<input, pipelineVars>>

TextNext == ExtractLegalMetadata

SpecText == TextInit /\ [][TextNext]_vars

\* s has kw, in any letter case, at some position
HasWord(s, kw) ==
    \E i \in 1..(Len(s) - Len(kw) + 1) :
        Lower(SubSeq(s, i, i + Len(kw) - 1)) = kw

\* the last 2000 characters of s
End2000(s) == IF Len(s) <= 2000 THEN s ELSE SubSeq(s, Len(s) - 1999, Len(s))

\* C9: the outcome of the text extractor is never null; it is "Dismissed"
\* exactly if the last 2000 characters hold "dismissed" in any letter case,
\* else "Allowed/Granted" if they hold "allowed" or "granted", else "Other";
\* what precedes the last 2000 characters has no part in it.
C9_TextOutcome ==
    output # NoOutput =>
        /\ output.outcome \in {"Dismissed", "Allowed/Granted", "Other"}
        /\ output.outcome =
               IF HasWord(End2000(input.s), "dismissed") THEN "Dismissed"
               ELSE IF HasWord(End2000(input.s), "allowed")
                         \/ HasWord(End2000(input.s), "granted")
                    THEN "Allowed/Granted"
               ELSE "Other"

\* a text with "dismissed" before its last 2000 characters and "granted"
\* within them gets "Allowed/Granted"
C9_Witness ==
    /\ output # NoOutput
    /\ Len(input.s) > 2000
    /\ HasWord(SubSeq(input.s, 1, Len(input.s) - 2000), "dismissed")
    /\ output.outcome = "Allowed/Granted"

-----------------------------------------------------------------------------
(* extract_citation_from_url on its own: SpecUrl applies it to URLs with    *)
(* and without the citation segment, with and without a query string, and   *)
(* with plus-signs at the end of the segment.                               *)

\* the number of plus-signs put at the end of the path
MaxTrail == 2

UrlPrefixes == {"l/", "https://h/a?b/", "citation/[x/"}

UrlSegments == {"citation/[2026]+SGHC+21", "citation/[2026]SGHC", "case/42",
                "citation/[]+A", "Citation/[2026]+SGHC+1",
                "citation/%5B2026%5D+SGHC+21"}

UrlQueries == {"", "?ref=x", "?a=[b]+c?d", "#f"}

UrlInputs ==
    {pre \o seg \o Rep("+", n) \o q :
        pre \in UrlPrefixes, seg \in UrlSegments, n \in 0..MaxTrail,
        q \in UrlQueries}

UrlInit ==
    /\ PipelineInit
    /\ input \in UrlInputs
    /\ output = NoOutput

\* pipeline.py line 35: citation = extract_citation_from_url(url)
ExtractCitationFromUrl ==
    /\ output = NoOutput
    /\ output' = [citation |-> extract_citation_from_url(input)]
    /\ UNCHANGED <<input, pipelineVars>>

UrlNext == ExtractCitationFromUrl

SpecUrl == UrlInit /\ [][UrlNext]_vars

\* the character of s at position i
Ch(s, i) == SubSeq(s, i, i)

\* the positions where url has "citation/[" with a "]+" somewhere after it
SegmentAt(url) ==
    {i \in 1..Len(url) :
        /\ i + 9 <= Len(url) /\ SubSeq(url, i, i + 9) = "citation/["
        /\ \E j \in (i + 10)..(Len(url) - 1) : SubSeq(url, j, j + 1) = "]+"}

\* the citation text of url: from the "[" of its first citation segment to
\* just before the first "?" that follows the segment's first "]+", or to
\* the end of the URL
CitationText(url) ==
    LET i == CHOOSE a \in SegmentAt(url) : \A b \in SegmentAt(url) : a <= b
        j == CHOOSE a \in (i + 10)..(Len(url) - 1) :
                 /\ SubSeq(url, a, a + 1) = "]+"
                 /\ \A b \in (i + 10)..(a - 1) : SubSeq(url, b, b + 1) # "]+"
        qs == {q \in (j + 2)..Len(url) : Ch(url, q) = "?"}
        e == IF qs = {} THEN Len(url)
             ELSE (CHOOSE q \in qs : \A r \in qs : q <= r) - 1
    IN  SubSeq(url, i + 9, e)

\* r is t with every plus-sign replaced by a space, of the same length
PlusDecoded(t, r) ==
    /\ Len(r) = Len(t)
    /\ \A k \in 1..Len(t) :
           Ch(r, k) = IF Ch(t, k) = "+" THEN " " ELSE Ch(t, k)

\* r is t with every plus-sign replaced by a space and the spaces at its two
\* ends removed
PlusDecodedTrimmed(t, r) ==
    \E a \in 0..Len(t), b \in 0..Len(t) :
        /\ a + Len(r) + b = Len(t)
        /\ \A k \in 1..a : Ch(t, k) \in {"+", " "}
        /\ \A k \in (Len(t) - b + 1)..Len(t) : Ch(t, k) \in {"+", " "}
        /\ PlusDecoded(SubSeq(t, a + 1, a + Len(r)), r)
        /\ Len(r) > 0 => Ch(r, 1) # " " /\ Ch(r, Len(r)) # " "

\* C11 as stated: for a URL with a citation segment the result is the
\* citation text with every plus-sign replaced by a space and the query
\* string removed; for any other URL it is the URL unchanged.
C11_UrlCitationAsStated ==
    output # NoOutput =>
        IF SegmentAt(input) # {}
        THEN PlusDecoded(CitationText(input), output.citation)
        ELSE output.citation = input

\* C11 amended: for a URL (without line breaks) in which "citation/[" is
\* followed somewhere by "]+", the result is the text from that "[" to just
\* before the first "?" after that "]+", or to the end of the URL, with
\* every plus-sign replaced by a space and then the spaces at its two ends
\* removed; for any other URL it is the URL unchanged.
C11_UrlCitation ==
    output # NoOutput =>
        IF SegmentAt(input) # {}
        THEN PlusDecodedTrimmed(CitationText(input), output.citation)
        ELSE output.citation = input

\* the URL of the documented example with a plus-sign before its query
\* string yields "[2026] SGHC 21"
C11_Witness ==
    /\ input = "l/citation/[2026]+SGHC+21+?ref=x"
    /\ output # NoOutput
    /\ output.citation = "[2026] SGHC 21"

-----------------------------------------------------------------------------
(* The pipeline step by step: SpecSteps runs what follows a returned fetch  *)
(* (pipeline.py lines 56-90) as the three steps the code takes in order,    *)
(* extraction, merge and store write, on the single event loop of           *)
(* asyncio.run: a task that is between two awaits holds the loop.           *)
(*   "extracting"  the fetch returned markup, lines 56-71 are to run        *)
(*   "merging"     both extractors returned, lines 76-87 are to run         *)
(*   "saving"      case_data is assembled, lines 89-90 are to run           *)

\* the tasks that are inside a stretch of code without an await
Busy == {t \in Tasks : pc[t] \in {"extracting", "merging", "saving"}}

\* the loop with every task at an await though one is between two awaits
LoopIdleAlways == TRUE

\* the event loop resumes a task or delivers an I/O result only when the
\* task that ran last has reached an await or has ended
LoopIdle == Busy = {}

\* pipeline.py lines 50-51 and 56: fetch_case_html returns the markup, the
\* loop is left by break and the markup is not empty
StepFetchReturns(t, page) ==
    /\ mainpc = "gather"
    /\ AllStarted
    /\ pc[t] = "fetching"
    /\ html_content' = [html_content EXCEPT ![t] = page]
    /\ pc' = [pc EXCEPT ![t] = "extracting"]
    /\ UNCHANGED <<store, clock, mainpc, runs, urls, force, attempt, fetches,
                   case_data, exc, logs, writes, persistedUrls, after,
                   input, output>>

\* pipeline.py lines 61-71: extract_case_metadata, extract_judgment_text and
\* extract_legal_metadata on the markup
StepExtract(t) ==
    /\ pc[t] = "extracting"
    /\ IF extract_case_metadata_raises(html_content[t])
       THEN /\ pc' = [pc EXCEPT ![t] = "raised"]
            /\ exc' = [exc EXCEPT ![t] = "AttributeError"]
       ELSE /\ pc' = [pc EXCEPT ![t] = "merging"]
            /\ UNCHANGED exc
    /\ UNCHANGED <<store, clock, mainpc, runs, urls, force, attempt, fetches,
                   html_content, case_data, logs, writes, persistedUrls,
                   after, input, output>>

\* pipeline.py lines 76-87: final_metadata and case_data
StepMerge(t) ==
    /\ pc[t] = "merging"
    /\ case_data' = [case_data EXCEPT
                        ![t] = case_data_of[urls[t]][html_content[t]]]
    /\ pc' = [pc EXCEPT ![t] = "saving"]
    /\ UNCHANGED <<store, clock, mainpc, runs, urls, force, attempt, fetches,
                   html_content, exc, logs, writes, persistedUrls, after,
                   input, output>>

\* StepSave taken from the extraction stage on, with whatever case_data
\* holds by then
StepSaveEarly(t, ok) ==
    /\ pc[t] \in {"extracting", "merging", "saving"}
    /\ store' = IF ok THEN upsert(store, row_values(case_data[t]), clock)
                ELSE store
    /\ writes' = [writes EXCEPT ![t] = IF ok THEN @ + 1 ELSE @]
    /\ pc' = [pc EXCEPT ![t] = IF ok THEN "persisted" ELSE "raised"]
    /\ exc' = [exc EXCEPT ![t] = IF ok THEN @ ELSE "sqlite3.Error"]
    /\ logs' = [logs EXCEPT ![t] = @ \cup save_case_logs(ok)]
    /\ UNCHANGED <<clock, mainpc, runs, urls, force, attempt, fetches,
                   html_content, case_data, persistedUrls, after,
                   input, output>>

\* pipeline.py lines 89-90: save_case(case_data) and the success log.  ok
\* tells whether SQLite executes the statement or fails with a sqlite3.Error.
StepSave(t, ok) ==
    /\ pc[t] = "saving"
    /\ store' = IF ok THEN upsert(store, row_values(case_data[t]), clock)
                ELSE store
    /\ writes' = [writes EXCEPT ![t] = IF ok THEN @ + 1 ELSE @]
    /\ IF save_case_raises(ok)
       THEN /\ pc' = [pc EXCEPT ![t] = "raised"]
            /\ exc' = [exc EXCEPT ![t] = "sqlite3.Error"]
            /\ logs' = [logs EXCEPT ![t] = @ \cup save_case_logs(ok)]
            /\ UNCHANGED persistedUrls
       ELSE /\ pc' = [pc EXCEPT ![t] = "persisted"]
            /\ logs' = [logs EXCEPT
                           ![t] = @ \cup save_case_logs(ok) \cup {"success"}]
            /\ persistedUrls' =
                   IF force THEN persistedUrls
                   ELSE persistedUrls \cup {urls[t]}
            /\ UNCHANGED exc
    /\ UNCHANGED <<clock, mainpc, runs, urls, force, attempt, fetches,
                   html_content, case_data, after, input, output>>

StepNext ==
    \/ \E us \in UrlLists, f \in BOOLEAN : LoopIdle /\ MainStart(us, f)
    \/ \E t \in Tasks : LoopIdle /\ Start(t)
    \/ \E t \in Tasks, page \in Pages : LoopIdle /\ StepFetchReturns(t, page)
    \/ \E t \in Tasks : StepExtract(t)
    \/ \E t \in Tasks : StepMerge(t)
    \/ \E t \in Tasks, ok \in BOOLEAN : StepSave(t, ok)
    \/ \E t \in Tasks : LoopIdle /\ FetchRaises(t)
    \/ \E t \in Tasks : LoopIdle /\ Wake(t)
    \/ LoopIdle /\ MainReturns
    \/ LoopIdle /\ MainRaises

SpecSteps == Init /\ [][StepNext]_vars

-----------------------------------------------------------------------------
(* Claims about the steps of a task, checked under SpecSteps *)

\* the stage of the per-URL state machine a task is in: a skipped task ends
\* in pending, a sleeping task is between two fetch attempts, a task whose
\* case_data is assembled but not yet written is still before persisted, and
\* a task ended by an exception or a cancellation counts as failed
Stage(p) ==
    CASE p \in {"pending", "skipped"} -> "pending" []
         p \in {"fetching", "sleeping"} -> "fetching" []
         p = "extracting" -> "extracting" []
         p \in {"merging", "saving"} -> "merging" []
         p = "persisted" -> "persisted" []
         OTHER -> "failed"

StageRank(st) ==
    CASE st = "pending" -> 0 []
         st = "fetching" -> 1 []
         st = "extracting" -> 2 []
         st = "merging" -> 3 []
         st = "persisted" -> 4 []
         OTHER -> 5

\* a step of the current run of the CLI, not the start of the next one
SameBatch == mainpc = "gather" /\ urls' = urls /\ DOMAIN pc' = DOMAIN pc

\* C12: a process_case run moves through the stages only in the order
\* pending, fetching, extracting, merging, persisted, one stage at a time and
\* never back, or leaves that order by going to failed, where it stays;
\* extraction starts only on markup a fetch attempt returned, and the store
\* is written only by a task whose merge is complete, with the merged record.
C12_StageOrder ==
    [][SameBatch =>
        /\ \A t \in Tasks :
            /\ \/ Stage(pc'[t]) = Stage(pc[t])
               \/ /\ Stage(pc[t]) \notin {"persisted", "failed"}
                  /\ Stage(pc'[t]) = "failed"
               \/ /\ Stage(pc'[t]) # "failed"
                  /\ StageRank(Stage(pc'[t])) = StageRank(Stage(pc[t])) + 1
            /\ Stage(pc'[t]) = "extracting" =>
                  /\ fetches'[t] >= 1
                  /\ html_content'[t] \in Pages
            /\ pc[t] # "extracting" /\ pc'[t] = "extracting" =>
                  pc[t] = "fetching"
            /\ case_data'[t] # case_data[t] => pc[t] = "merging"
            /\ writes'[t] # writes[t] =>
                  /\ Stage(pc[t]) = "merging"
                  /\ case_data[t] # <<>>
                  /\ case_data[t] =
                         build_case_data(urls[t], html_content[t])
                  /\ \E i \in DOMAIN store' :
                         \A c \in Columns : store'[i][c] = Get(case_data[t], c)
        /\ store' # store => \E t \in Tasks : writes'[t] # writes[t]
    ]_vars

\* a task has gone through every stage and its record is in the table,
\* after a fetch attempt of it had failed
C12_Witness ==
    \E t \in Tasks :
        /\ pc[t] = "persisted"
        /\ fetches[t] = 2
        /\ writes[t] = 1
        /\ \E i \in DOMAIN store :
               \A c \in Columns : store[i][c] = Get(case_data[t], c)

\* C16: suspension points.  While a task is between the return of its fetch
\* and the end of its store write, every step is a step of that task: no
\* other task moves, fetches, reads or writes the store or logs, main neither
\* returns nor raises, and at most one task is ever in that stretch.
C16_SuspensionPoints ==
    [][/\ Cardinality(Busy') <= 1
       /\ \A t \in Busy :
            /\ mainpc' = mainpc
            /\ DOMAIN pc' = DOMAIN pc
            /\ \A u \in Tasks \ {t} :
                 /\ pc'[u] = pc[u]
                 /\ fetches'[u] = fetches[u]
                 /\ attempt'[u] = attempt[u]
                 /\ html_content'[u] = html_content[u]
                 /\ case_data'[u] = case_data[u]
                 /\ writes'[u] = writes[u]
                 /\ logs'[u] = logs[u]
            /\ store' # store => writes'[t] = writes[t] + 1
    ]_vars

\* a task is about to write the table while another, after a failed
\* attempt, awaits its fetch or its backoff sleep
C16_Witness ==
    \E t \in Tasks, u \in Tasks :
        /\ pc[t] = "saving"
        /\ pc[u] \in {"fetching", "sleeping"}
        /\ fetches[u] >= 2

-----------------------------------------------------------------------------
(* extract_case_metadata on its own: SpecHtml applies it to pages that      *)
(* differ in what the area_of_law searches find: the Legal Topics header,   *)
(* its container, the topic spans, the elements after the header and the    *)
(* Catchwords landmark.                                                     *)

\* the number of distinct topic spans of a container
MaxTopics == 11

\* n distinct topics, the first of them repeated at the end
Topics(n) == [k \in 1..(n + 1) |-> IF k = n + 1 THEN "t" ELSE Rep("t", k)]

SpanInputs == {<<>>} \cup {Topics(n) : n \in 1..MaxTopics}

ContainerTexts == {"", "Tort Negligence", Rep("c", ContainerTextLimit + 1)}

ElemInputs ==
    {<<>>, <<"ab", "">>,
     <<"Contract", "Judgments of the court", "Tort">>,
     <<"e1e", "e2e", "e3e", "e4e", "e5e", "e6e">>}

CatchwordInputs == {None, "", "Contract - Formation", Rep("w", CatchwordsLimit + 1)}

HtmlInputs ==
    {PageBefore} \cup
    {[BlankPage EXCEPT
         !.legal_topics_header = h, !.has_container = hc, !.cw_spans = sp,
         !.container_text = ct, !.next_elems = ne,
         !.catchwords = cw, !.catchwords_next = cn] :
        h \in BOOLEAN, hc \in BOOLEAN, sp \in SpanInputs,
        ct \in ContainerTexts, ne \in ElemInputs, cw \in BOOLEAN,
        cn \in CatchwordInputs} 

HtmlInit ==
    /\ PipelineInit
    /\ input \in {page \in HtmlInputs :
                     /\ page.has_container => page.legal_topics_header
                     /\ ~page.has_container =>
                            page.cw_spans = <<>> /\ page.container_text = ""
                     /\ page.cw_spans # <<>> => page.container_text # ""
                     /\ ~page.legal_topics_header => page.next_elems = <<>>
                     /\ ~page.catchwords => page.catchwords_next = None}
    /\ output = NoOutput

\* pipeline.py line 62: html_metadata = extract_case_metadata(html_content)
ExtractCaseMetadata ==
    /\ output = NoOutput
    /\ output' = IF extract_case_metadata_raises(input)
                 THEN [exception |-> "AttributeError"]
                 ELSE extract_case_metadata(input)
    /\ UNCHANGED <<input, pipelineVars>>

HtmlNext == ExtractCaseMetadata

SpecHtml == HtmlInit /\ [][HtmlNext]_vars

\* xs without the elements that occurred earlier in it
FirstSeen(xs) ==
    LET keep == {k \in 1..Len(xs) : \A j \in 1..(k - 1) : xs[j] # xs[k]}
    IN  [i \in 1..Cardinality(keep) |->
            xs[CHOOSE k \in keep : Cardinality({j \in keep : j <= k}) = i]]

\* the text fragments of up to 5 elements after the landmark: those longer
\* than 2 characters, up to the first element that holds a boundary phrase
Fragments(elems) ==
    LET n == Min(5, Len(elems))
        stops == {k \in 1..n : \/ Contains(elems[k], "Judgments")
                               \/ Contains(elems[k], "Case Details")}
        lim == IF stops = {} THEN n
               ELSE (CHOOSE k \in stops : \A j \in stops : k <= j) - 1
    IN  SelectSeq(SubSeq(elems, 1, lim), LAMBDA x : Len(x) > 2)

\* the area_of_law the ordered fallback (a) to (e) gives
TieredAreaOfLaw(page) ==
    IF page.legal_topics_header /\ page.has_container /\ page.cw_spans # <<>>
    THEN Join(SubSeq(FirstSeen(page.cw_spans), 1,
                     Min(10, Len(FirstSeen(page.cw_spans)))))
    ELSE IF page.legal_topics_header /\ page.has_container
    THEN Take(page.container_text, 200)
    ELSE IF page.legal_topics_header /\ Fragments(page.next_elems) # <<>>
    THEN Join(Fragments(page.next_elems))
    ELSE IF page.catchwords
    THEN Take(Strip(FirstSegment(IF page.catchwords_next = None THEN ""
                                 ELSE page.catchwords_next, "-")), 100)
    ELSE "Unclassified"

\* C18: the HTML area_of_law is the value of the first tier that applies:
\* (a) the topic spans of the container, de-duplicated in first-seen order,
\* at most 10, joined with "; "; (b) the container's text cut to 200
\* characters; (c) the fragments of up to 5 elements after the Legal Topics
\* landmark; (d) the Catchwords landmark whenever (a) to (c) give nothing,
\* also when the Legal Topics landmark exists; (e) "Unclassified" when no
\* tier applies.  It is never null.
C18_AreaOfLawFallback ==
    output # NoOutput /\ "area_of_law" \in DOMAIN output =>
        /\ output.area_of_law # None
        /\ output.area_of_law = TieredAreaOfLaw(input)

=============================================================================
